---- MODULE Spec2Model ----
(***************************************************************************)
(* Model of src/wasm/qpdf.mjs: the four library-style operations of the    *)
(* object returned by createQpdf (getInfo, getInfoKey, processPdf,         *)
(* checkPdf), the helpers allocBytes and throwIfError, and the C glue the  *)
(* operations call through cwrap.                                          *)
(*                                                                         *)
(* One invocation of an operation is a walk of pc through the statements   *)
(* of its body.  Every call that crosses into the WASM module is appended  *)
(* to trace, so that ordering properties are statements about trace.       *)
(* What the qpdf library answers (status codes, attribute values, output   *)
(* bytes, whether a call traps) is not decided by this repository: it is   *)
(* drawn with \E at the call.                                              *)
(***************************************************************************)
EXTENDS Integers, Sequences, FiniteSets, TLC

(* ------------------------------ bounds --------------------------------- *)
MaxInvocations == 1   \* facade invocations in one behaviour
MaxRepeat == 3        \* invocations in a behaviour that repeats getInfo
MaxLen == 1           \* longest input pdfBytes
MaxOutLen == 1        \* longest output buffer the writer produces

(* ------------------------ values of the model -------------------------- *)
Ops == {"getInfo", "getInfoKey", "processPdf", "checkPdf"}
Flags == {"linearize", "compress", "preserveEncryption", "deterministicId", "qdfMode"}
\* a JS option value: absent, or a boolean
FlagValues == {"undefined", "true", "false"}
Passwords == {"undefined", "pw"}
Keys == {"/Author"}
Inputs == {[i \in 1..n |-> 37] : n \in 0..MaxLen}
OutBufs == {[i \in 1..n |-> 36 + i] : n \in 1..MaxOutLen}
\* QPDF_ERROR_CODE is a bit set: bit 0 = warnings, bit 1 = errors
Statuses == 0..3
\* the sessions and heap blocks the longest run of invocations can need
MaxSessions == IF MaxRepeat > MaxInvocations THEN MaxRepeat ELSE MaxInvocations
Handles == 1..MaxSessions
HeapSlots == 1..(MaxSessions + 1)

NoOptions == [f \in Flags |-> "undefined"]
\* the options objects a caller passes: linearize and compress take every
\* value independently, the other three options share one value (each
\* option is tested by a statement of its own)
OptionSets ==
    {[f \in Flags |-> CASE f = "linearize" -> a
                        [] f = "compress" -> b
                        [] OTHER -> c] : a \in FlagValues, b \in FlagValues, c \in FlagValues}
\* hi is the high 32 bits of pdfBytes.length; pdfBytes holds the bytes the
\* low 32 bits count
NoArgs ==
    [pdfBytes |-> <<>>, hi |-> 0, password |-> "undefined", key |-> "",
     options |-> NoOptions]
\* the byte arrays a caller passes: the short ones, and one of 4 GiB
InputArrays ==
    {[bytes |-> b, hi |-> 0] : b \in Inputs} \cup {[bytes |-> <<>>, hi |-> 1]}

NoSession ==
    [state |-> "unopened", loaded |-> FALSE, hasError |-> FALSE, errText |-> "",
     prepared |-> FALSE, written |-> FALSE, outPtr |-> 0, outLen |-> 0,
     params |-> [f \in Flags |-> -1]]
ClosedSession == [NoSession EXCEPT !.state = "closed"]

FreeBlock == [live |-> FALSE, bytes |-> <<>>]

NoLocals ==
    [version |-> "", pages |-> 0, encrypted |-> FALSE, linearized |-> FALSE,
     val |-> "", len |-> 0, outPtr |-> 0,
     output |-> [view |-> FALSE, ptr |-> 0, len |-> 0, bytes |-> <<>>]]

NoOutcome ==
    [kind |-> "none", isError |-> FALSE, message |-> "", raw |-> 0,
     ok |-> FALSE, error |-> "", str |-> "", info |-> NoLocals,
     bytes |-> NoLocals.output]

\* one entry of trace: a call across the boundary and what came back; err
\* is a ghost: whether the call left an error in the session; seen is a
\* ghost: the bytes the buffer argument points at when the call is made
Call(fn, h) ==
    [fn |-> fn, h |-> h, ptr |-> 0, len |-> 0, str |-> "", val |-> 0,
     res |-> 0, txt |-> "", trap |-> FALSE, err |-> FALSE, argv |-> <<>>,
     seen |-> <<>>]

\* nothing known of an earlier getInfo
NoEarlier ==
    [called |-> FALSE, pdfBytes |-> <<>>, password |-> "undefined",
     kept |-> <<>>, trace |-> <<>>, outcome |-> NoOutcome]

VARIABLES
    op,           \* the facade operation being executed ("none" between calls)
    args,         \* its arguments: pdfBytes, password, key, options
    pc,           \* position in the body of the operation
    handle,       \* const handle = _init()
    ptr,          \* const ptr = allocBytes(pdfBytes)
    rc,           \* the status most recently assigned (rc, wrc, writeRc, checkRc)
    locals,       \* the other locals of the body
    sessions,     \* native sessions by handle
    heap,         \* the WASM heap, as blocks by pointer
    trace,        \* boundary calls of the current invocation, in order
    outcome,      \* what the invocation returns or throws
    written,      \* ghost: the bytes the writer produced in this invocation
    invocations,  \* number of invocations started
    earlier       \* ghost: the first getInfo the caller made, as delivered

vars == <<op, args, pc, handle, ptr, rc, locals, sessions, heap, trace,
          outcome, written, invocations, earlier>>

(* --------------------------- JS expressions ---------------------------- *)
\* a in place of a || b
JsOrNoFallback(a, b) == a

\* a || b on strings
JsOr(a, b) == IF a = "" THEN b ELSE a

\* password || null
PasswordOrNull(p) == IF p \in {"undefined", ""} THEN "null" ELSE p

\* uint8Array.length, as the two 32-bit halves of the number
ByteLength(a) == [lo |-> Len(a.pdfBytes), hi |-> a.hi]

\* what a 32-bit parameter of an exported function keeps of a JS number
ToUint32(n) == n.lo

\* cwrap's conversion of a "string" argument: null stays 0, a string is
\* copied to the stack and its address (not 0) is passed
StringToC(str) == IF str = "null" THEN 0 ELSE 1

\* the values the cwrap'ed _readMemory passes to the export, in order
readMemoryArgv(h, p, n, pw) == <<h, p, ToUint32(n), StringToC(pw)>>

\* the k-th value an export receives; a value not passed is undefined: 0
Slot(a, k) == IF k <= Len(a) THEN a[k] ELSE 0

\* how the values bind to the parameters of qpdf_wasm_read_memory: the
\* unsigned long long size takes two 32-bit positions, low half first
qpdf_wasm_read_memory_params(a) ==
    [qpdf |-> Slot(a, 1), buffer |-> Slot(a, 2), size_lo |-> Slot(a, 3),
     size_hi |-> Slot(a, 4), password |-> Slot(a, 5)]

\* if (options.x) in place of if (options.x !== undefined)
OptionPresentTruthy(v) == v = "true"

\* options.x !== undefined
OptionPresent(v) == v # "undefined"

\* options.x ? 1 : 0
FlagArg(v) == IF v = "true" THEN 1 ELSE 0

\* x !== 0 on a status
NonZero(x) == x # 0

(* --------------------------- the C side -------------------------------- *)
\* qpdf_has_error: the error bit of the status of the last fallible call
ErrorBit(st) == st \in {2, 3}

\* the exported functions whose call can leave the module by a raw throw:
\* the glue has no handler around the library calls it forwards to
TrapFns ==
    {"readMemory", "initWriteMemory", "write", "checkPdf", "getPdfVersion",
     "getNumPages", "isEncrypted", "isLinearized", "getInfoKey"}

\* a value thrown across the boundary that is not an Error object
RawThrow == [NoOutcome EXCEPT !.kind = "throw", !.isError = FALSE, !.raw = 1]

\* throw new Error(msg)
ErrorThrow(msg) == [NoOutcome EXCEPT !.kind = "throw", !.isError = TRUE, !.message = msg]

\* qpdf_wasm_get_error_full_text
qpdf_wasm_get_error_full_text(s) == IF ~s.hasError THEN "" ELSE s.errText

\* the session after a fallible call that returned st
AfterFallible(s, st, text) ==
    [s EXCEPT !.hasError = ErrorBit(st),
              !.errText = IF ErrorBit(st) THEN text ELSE ""]

\* least free block of the heap (Module._malloc)
FreeSlots(hp) == {a \in HeapSlots : ~hp[a].live}
Malloc(hp) == CHOOSE a \in FreeSlots(hp) : \A b \in FreeSlots(hp) : a <= b

\* the bytes seen through HEAPU8.subarray(p, p + n)
Deref(hp, p, n) ==
    IF p \in HeapSlots /\ hp[p].live /\ n <= Len(hp[p].bytes)
    THEN SubSeq(hp[p].bytes, 1, n)
    ELSE [i \in 1..n |-> -1]   \* a released block: not the bytes that were there

\* what the caller reads in a returned byte array
Observed(hp, b) == IF b.view THEN Deref(hp, b.ptr, b.len) ELSE b.bytes

(* ------------------------ statement order ------------------------------ *)
\* getInfo whose finally block closes the session before it releases the
\* input
getInfoStepsCloseFirst ==
    <<"init", "alloc", "read", "readCheck", "getPdfVersion", "getNumPages",
      "isEncrypted", "isLinearized", "return", "cleanup", "free", "done">>

getInfoSteps ==
    <<"init", "alloc", "read", "readCheck", "getPdfVersion", "getNumPages",
      "isEncrypted", "isLinearized", "return", "free", "cleanup", "done">>

\* getInfoKey that prepares an output before it reads the field
getInfoKeyStepsPrepares ==
    <<"init", "alloc", "read", "readCheck", "initWrite", "getInfoKey",
      "return", "free", "cleanup", "done">>

getInfoKeySteps ==
    <<"init", "alloc", "read", "readCheck", "getInfoKey", "return", "free",
      "cleanup", "done">>

\* processPdf that does not check the status of _write
processPdfStepsNoWriteCheck ==
    <<"init", "alloc", "read", "readCheck", "initWrite", "initWriteCheck",
      "linearize", "compress", "preserveEncryption", "deterministicId",
      "qdfMode", "write", "getBufferLength", "getBuffer", "copyOut", "return",
      "free", "cleanup", "done">>

\* processPdf that applies the last option after _write
processPdfStepsSetterAfterWrite ==
    <<"init", "alloc", "read", "readCheck", "initWrite", "initWriteCheck",
      "linearize", "compress", "preserveEncryption", "deterministicId",
      "write", "writeCheck", "qdfMode", "getBufferLength", "getBuffer",
      "copyOut", "return", "free", "cleanup", "done">>

\* processPdf that closes the session before it reads the output buffer
processPdfStepsCloseBeforeCopy ==
    <<"init", "alloc", "read", "readCheck", "initWrite", "initWriteCheck",
      "linearize", "compress", "preserveEncryption", "deterministicId",
      "qdfMode", "write", "writeCheck", "cleanup", "getBufferLength",
      "getBuffer", "copyOut", "return", "free", "done">>

processPdfSteps ==
    <<"init", "alloc", "read", "readCheck", "initWrite", "initWriteCheck",
      "linearize", "compress", "preserveEncryption", "deterministicId",
      "qdfMode", "write", "writeCheck", "getBufferLength", "getBuffer",
      "copyOut", "return", "free", "cleanup", "done">>

\* checkPdf that never looks at checkRc
checkPdfStepsNoCheckFail ==
    <<"init", "alloc", "read", "readFail", "checkPdf", "return", "free",
      "cleanup", "done">>

checkPdfSteps ==
    <<"init", "alloc", "read", "readFail", "checkPdf", "checkFail", "return",
      "free", "cleanup", "done">>

StepsOf(o) ==
    CASE o = "getInfo" -> getInfoSteps
      [] o = "getInfoKey" -> getInfoKeySteps
      [] o = "processPdf" -> processPdfSteps
      [] o = "checkPdf" -> checkPdfSteps

\* the statement after statement p of operation o
Succ(o, p) ==
    LET s == StepsOf(o)
        i == CHOOSE k \in 1..Len(s) : s[k] = p
    IN s[i + 1]

(* ------------------------------- Init ---------------------------------- *)
Init ==
    /\ op = "none"
    /\ args = NoArgs
    /\ pc = "idle"
    /\ handle = 0
    /\ ptr = 0
    /\ rc = 0
    /\ locals = NoLocals
    /\ sessions = [h \in Handles |-> NoSession]
    /\ heap = [a \in HeapSlots |-> FreeBlock]
    /\ trace = <<>>
    /\ outcome = NoOutcome
    /\ written = <<>>
    /\ invocations = 0
    /\ earlier = NoEarlier

(* ------------------------------ actions -------------------------------- *)
\* the caller invokes one of the four operations
Start ==
    /\ pc = "idle"
    /\ invocations < MaxInvocations
    /\ \E o \in Ops, b \in InputArrays, p \in Passwords :
         \E k \in (IF o = "getInfoKey" THEN Keys ELSE {""}),
            opts \in (IF o = "processPdf" THEN OptionSets ELSE {NoOptions}) :
           /\ op' = o
           /\ args' = [pdfBytes |-> b.bytes, hi |-> b.hi, password |-> p, key |-> k,
                        options |-> opts]
    /\ pc' = "init"
    /\ handle' = 0
    /\ ptr' = 0
    /\ rc' = 0
    /\ locals' = NoLocals
    /\ trace' = <<>>
    /\ outcome' = NoOutcome
    /\ written' = <<>>
    /\ invocations' = invocations + 1
    /\ UNCHANGED <<sessions, heap>>
    /\ UNCHANGED earlier

\* const handle = _init();
CallInit ==
    /\ pc = "init"
    /\ handle' = invocations
    /\ sessions' = [sessions EXCEPT ![invocations] = [NoSession EXCEPT !.state = "open"]]
    /\ trace' = Append(trace, [Call("init", invocations) EXCEPT !.res = invocations])
    /\ pc' = Succ(op, pc)
    /\ UNCHANGED <<op, args, ptr, rc, locals, heap, outcome, written, invocations>>
    /\ UNCHANGED earlier

\* const ptr = allocBytes(pdfBytes);  -- this statement is outside the try
\* block: when it throws, the finally block does not run
AllocBytes ==
    /\ pc = "alloc"
    /\ LET n == ToUint32(ByteLength(args))
           p == Malloc(heap)
       IN \/ \* Module._malloc(uint8Array.length) throws
             /\ trace' = Append(trace, [Call("malloc", 0) EXCEPT !.len = n, !.trap = TRUE])
             /\ outcome' = ErrorThrow("malloc")
             /\ pc' = "done"
             /\ UNCHANGED <<ptr, heap>>
          \/ \* Module.HEAPU8.set(uint8Array, ptr) throws
             /\ trace' = trace \o
                   << [Call("malloc", 0) EXCEPT !.len = n, !.res = p],
                      [Call("heapSet", 0) EXCEPT !.ptr = p, !.len = n, !.trap = TRUE] >>
             /\ heap' = [heap EXCEPT ![p] = [live |-> TRUE, bytes |-> <<>>]]
             /\ outcome' = ErrorThrow("offset is out of bounds")
             /\ pc' = "done"
             /\ UNCHANGED ptr
          \/ \* an array that is not longer than the whole heap is copied
             /\ args.hi = 0
             /\ trace' = trace \o
                   << [Call("malloc", 0) EXCEPT !.len = n, !.res = p],
                      [Call("heapSet", 0) EXCEPT !.ptr = p, !.len = n] >>
             /\ heap' = [heap EXCEPT ![p] = [live |-> TRUE, bytes |-> args.pdfBytes]]
             /\ ptr' = p
             /\ pc' = Succ(op, pc)
             /\ UNCHANGED outcome
    /\ UNCHANGED <<op, args, handle, rc, locals, sessions, written, invocations>>
    /\ UNCHANGED earlier

\* a raw throw out of boundary call c: control goes to the finally block
Trap(c) ==
    /\ c.fn \in TrapFns
    /\ trace' = Append(trace, [c EXCEPT !.trap = TRUE])
    /\ outcome' = RawThrow
    /\ pc' = "free"

\* const rc = _readMemory(handle, ptr, pdfBytes.length, password || null);
ReadMemory ==
    /\ pc = "read"
    /\ LET c == [Call("readMemory", handle) EXCEPT
                    !.ptr = ptr, !.len = ToUint32(ByteLength(args)),
                    !.str = PasswordOrNull(args.password),
                    !.seen = Deref(heap, ptr, ToUint32(ByteLength(args))),
                    !.argv = readMemoryArgv(handle, ptr, ByteLength(args),
                                            PasswordOrNull(args.password))]
       IN \/ /\ Trap(c)
             /\ UNCHANGED <<rc, sessions>>
          \/ \E st \in Statuses :
               /\ trace' = Append(trace, [c EXCEPT !.res = st, !.err = ErrorBit(st)])
               /\ rc' = st
               /\ sessions' = [sessions EXCEPT ![handle] =
                      [AfterFallible(@, st, "read error") EXCEPT !.loaded = ~ErrorBit(st)]]
               /\ pc' = Succ(op, pc)
               /\ UNCHANGED outcome
    /\ UNCHANGED <<op, args, handle, ptr, locals, heap, written, invocations>>
    /\ UNCHANGED earlier

\* a message that leaves the text of the library out
ErrorMessageGeneric(msg) == "qpdf error"

\* `qpdf error: ${msg}`
ErrorMessage(msg) == "qpdf error: " \o msg

\* throwIfError that does not look at the error state
throwIfErrorNever(s) == FALSE

\* function throwIfError(handle): does it throw on session s?
throwIfError(s) == s.hasError

\* if (rc !== 0) throwIfError(handle);
RcCheck ==
    /\ pc \in {"readCheck", "initWriteCheck", "writeCheck"}
    /\ IF NonZero(rc)
       THEN LET s == sessions[handle]
                he == [Call("hasError", handle) EXCEPT !.res = IF s.hasError THEN 1 ELSE 0]
                msg == qpdf_wasm_get_error_full_text(s)
            IN IF throwIfError(s)
               THEN /\ trace' = trace \o
                          << he, [Call("getErrorText", handle) EXCEPT !.txt = msg] >>
                    /\ outcome' = ErrorThrow(ErrorMessage(msg))
                    /\ pc' = "free"
               ELSE /\ trace' = Append(trace, he)
                    /\ pc' = Succ(op, pc)
                    /\ UNCHANGED outcome
       ELSE /\ pc' = Succ(op, pc)
            /\ UNCHANGED <<trace, outcome>>
    /\ UNCHANGED <<op, args, handle, ptr, rc, locals, sessions, heap, written, invocations>>
    /\ UNCHANGED earlier

\* the values the library can answer to the attribute queries
Versions == {"1.4", "1.7"}
PageCounts == 0..1
Booleans01 == {0, 1}
\* qpdf_get_info_key: NULL when the key is unset, else the stored string
InfoValues == {"NULL", "", "Alice"}

\* cwrap's conversion of a returned const char* to a JS string
CwrapString(r) == IF r = "NULL" THEN "" ELSE r

\* the four attribute reads of the object literal getInfo returns
Query ==
    /\ pc \in {"getPdfVersion", "getNumPages", "isEncrypted", "isLinearized"}
    /\ LET c == Call(pc, handle)
       IN \/ /\ Trap(c)
             /\ UNCHANGED locals
          \/ /\ pc = "getPdfVersion"
             /\ \E v \in Versions :
                  /\ trace' = Append(trace, [c EXCEPT !.txt = v])
                  /\ locals' = [locals EXCEPT !.version = v]
             /\ pc' = Succ(op, pc)
             /\ UNCHANGED outcome
          \/ /\ pc = "getNumPages"
             /\ \E n \in PageCounts :
                  /\ trace' = Append(trace, [c EXCEPT !.res = n])
                  /\ locals' = [locals EXCEPT !.pages = n]
             /\ pc' = Succ(op, pc)
             /\ UNCHANGED outcome
          \/ /\ pc \in {"isEncrypted", "isLinearized"}
             /\ \E b \in Booleans01 :
                  /\ trace' = Append(trace, [c EXCEPT !.res = b])
                  /\ locals' = IF pc = "isEncrypted"
                               THEN [locals EXCEPT !.encrypted = NonZero(b)]
                               ELSE [locals EXCEPT !.linearized = NonZero(b)]
             /\ pc' = Succ(op, pc)
             /\ UNCHANGED outcome
    /\ UNCHANGED <<op, args, handle, ptr, rc, sessions, heap, written, invocations>>
    /\ UNCHANGED earlier

\* const val = _getInfoKey(handle, key);
GetInfoKey ==
    /\ pc = "getInfoKey"
    /\ LET c == [Call("getInfoKey", handle) EXCEPT !.str = args.key]
       IN \/ /\ Trap(c)
             /\ UNCHANGED locals
          \/ /\ \E r \in InfoValues :
                  /\ trace' = Append(trace, [c EXCEPT !.txt = r])
                  /\ locals' = [locals EXCEPT !.val = CwrapString(r)]
             /\ pc' = Succ(op, pc)
             /\ UNCHANGED outcome
    /\ UNCHANGED <<op, args, handle, ptr, rc, sessions, heap, written, invocations>>
    /\ UNCHANGED earlier

\* const wrc = _initWriteMemory(handle);
InitWriteMemory ==
    /\ pc = "initWrite"
    /\ LET c == Call("initWriteMemory", handle)
       IN \/ /\ Trap(c)
             /\ UNCHANGED <<rc, sessions>>
          \/ \E st \in Statuses :
               /\ trace' = Append(trace, [c EXCEPT !.res = st, !.err = ErrorBit(st)])
               /\ rc' = st
               /\ sessions' = [sessions EXCEPT ![handle] =
                      [AfterFallible(@, st, "init write error") EXCEPT
                          !.prepared = ~ErrorBit(st)]]
               /\ pc' = Succ(op, pc)
               /\ UNCHANGED outcome
    /\ UNCHANGED <<op, args, handle, ptr, locals, heap, written, invocations>>
    /\ UNCHANGED earlier

\* the cwrap'ed setter that belongs to an option
SetterFn(f) ==
    CASE f = "linearize" -> "setLinearize"
      [] f = "compress" -> "setCompress"
      [] f = "preserveEncryption" -> "setPreserveEnc"
      [] f = "deterministicId" -> "setDetId"
      [] f = "qdfMode" -> "setQdf"
SetterFns == {SetterFn(f) : f \in Flags}

\* if (options.x !== undefined) _setX(handle, options.x ? 1 : 0);
Setter ==
    /\ pc \in Flags
    /\ LET v == args.options[pc]
       IN IF OptionPresent(v)
          THEN /\ trace' = Append(trace, [Call(SetterFn(pc), handle) EXCEPT !.val = FlagArg(v)])
               /\ sessions' = [sessions EXCEPT ![handle].params[pc] = FlagArg(v)]
          ELSE UNCHANGED <<trace, sessions>>
    /\ pc' = Succ(op, pc)
    /\ UNCHANGED <<op, args, handle, ptr, rc, locals, heap, outcome, written, invocations>>
    /\ UNCHANGED earlier

\* const writeRc = _write(handle);  -- on success the session owns a buffer
\* in the WASM heap that holds the output
Write ==
    /\ pc = "write"
    /\ LET c == Call("write", handle)
       IN \/ /\ Trap(c)
             /\ UNCHANGED <<rc, sessions, heap, written>>
          \/ \E st \in Statuses :
               /\ trace' = Append(trace, [c EXCEPT !.res = st, !.err = ErrorBit(st)])
               /\ rc' = st
               /\ IF ErrorBit(st)
                  THEN /\ sessions' = [sessions EXCEPT ![handle] =
                              AfterFallible(@, st, "write error")]
                       /\ UNCHANGED <<heap, written>>
                  ELSE \E out \in OutBufs :
                         LET p == Malloc(heap)
                         IN /\ heap' = [heap EXCEPT ![p] = [live |-> TRUE, bytes |-> out]]
                            /\ sessions' = [sessions EXCEPT ![handle] =
                                   [AfterFallible(@, st, "") EXCEPT
                                       !.written = TRUE, !.outPtr = p, !.outLen = Len(out)]]
                            /\ written' = out
               /\ pc' = Succ(op, pc)
               /\ UNCHANGED outcome
    /\ UNCHANGED <<op, args, handle, ptr, locals, invocations>>
    /\ UNCHANGED earlier

\* const len = _getBufferLength(handle);
GetBufferLength ==
    /\ pc = "getBufferLength"
    /\ LET n == sessions[handle].outLen
       IN /\ trace' = Append(trace, [Call("getBufferLength", handle) EXCEPT !.res = n])
          /\ locals' = [locals EXCEPT !.len = n]
    /\ pc' = Succ(op, pc)
    /\ UNCHANGED <<op, args, handle, ptr, rc, sessions, heap, outcome, written, invocations>>
    /\ UNCHANGED earlier

\* const outPtr = _getBuffer(handle);
GetBuffer ==
    /\ pc = "getBuffer"
    /\ LET p == sessions[handle].outPtr
       IN /\ trace' = Append(trace, [Call("getBuffer", handle) EXCEPT !.res = p])
          /\ locals' = [locals EXCEPT !.outPtr = p]
    /\ pc' = Succ(op, pc)
    /\ UNCHANGED <<op, args, handle, ptr, rc, sessions, heap, outcome, written, invocations>>
    /\ UNCHANGED earlier

\* the subarray itself: a view of the heap, nothing copied
CopyOutResultView(hp, p, n) ==
    [view |-> TRUE, ptr |-> p, len |-> n, bytes |-> <<>>]

\* new Uint8Array(len) filled by output.set(Module.HEAPU8.subarray(p, p + n))
CopyOutResult(hp, p, n) ==
    [view |-> FALSE, ptr |-> 0, len |-> n, bytes |-> Deref(hp, p, n)]

\* const output = new Uint8Array(len); output.set(...subarray(outPtr, outPtr + len));
CopyOut ==
    /\ pc = "copyOut"
    /\ trace' = Append(trace, [Call("heapRead", 0) EXCEPT !.ptr = locals.outPtr, !.len = locals.len])
    /\ locals' = [locals EXCEPT !.output = CopyOutResult(heap, locals.outPtr, locals.len)]
    /\ pc' = Succ(op, pc)
    /\ UNCHANGED <<op, args, handle, ptr, rc, sessions, heap, outcome, written, invocations>>
    /\ UNCHANGED earlier

\* the message checkPdf falls back to at each of its two failure returns
FallbackText(p) == IF p = "readFail" THEN "Failed to read PDF" ELSE "PDF check failed"

\* if (rc !== 0) return { ok: false, error: _getErrorText(handle) || "..." };
FailReturn ==
    /\ pc \in {"readFail", "checkFail"}
    /\ IF NonZero(rc)
       THEN LET msg == qpdf_wasm_get_error_full_text(sessions[handle])
            IN /\ trace' = Append(trace, [Call("getErrorText", handle) EXCEPT !.txt = msg])
               /\ outcome' = [NoOutcome EXCEPT !.kind = "return", !.ok = FALSE,
                                               !.error = JsOr(msg, FallbackText(pc))]
               /\ pc' = "free"
       ELSE /\ pc' = Succ(op, pc)
            /\ UNCHANGED <<trace, outcome>>
    /\ UNCHANGED <<op, args, handle, ptr, rc, locals, sessions, heap, written, invocations>>
    /\ UNCHANGED earlier

\* const checkRc = _checkPdf(handle);
CheckPdf ==
    /\ pc = "checkPdf"
    /\ LET c == Call("checkPdf", handle)
       IN \/ /\ Trap(c)
             /\ UNCHANGED <<rc, sessions>>
          \/ \E st \in Statuses :
               /\ trace' = Append(trace, [c EXCEPT !.res = st, !.err = ErrorBit(st)])
               /\ rc' = st
               /\ sessions' = [sessions EXCEPT ![handle] = AfterFallible(@, st, "check error")]
               /\ pc' = Succ(op, pc)
               /\ UNCHANGED outcome
    /\ UNCHANGED <<op, args, handle, ptr, locals, heap, written, invocations>>
    /\ UNCHANGED earlier

\* the value of the return statement that ends the try block of operation o
ReturnValue(o, l) ==
    CASE o = "getInfo" -> [NoOutcome EXCEPT !.kind = "return", !.info = l]
      [] o = "getInfoKey" -> [NoOutcome EXCEPT !.kind = "return", !.str = JsOr(l.val, "null")]
      [] o = "processPdf" -> [NoOutcome EXCEPT !.kind = "return", !.bytes = l.output]
      [] o = "checkPdf" -> [NoOutcome EXCEPT !.kind = "return", !.ok = TRUE, !.error = "null"]

\* return ...;  -- the finally block runs before the value reaches the caller
Return ==
    /\ pc = "return"
    /\ outcome' = ReturnValue(op, locals)
    /\ pc' = Succ(op, pc)
    /\ UNCHANGED <<op, args, handle, ptr, rc, locals, sessions, heap, trace, written, invocations>>
    /\ UNCHANGED earlier

\* } finally { Module._free(ptr);
Free ==
    /\ pc = "free"
    /\ trace' = Append(trace, [Call("free", 0) EXCEPT !.ptr = ptr])
    /\ heap' = [heap EXCEPT ![ptr] = FreeBlock]
    /\ pc' = Succ(op, pc)
    /\ UNCHANGED <<op, args, handle, ptr, rc, locals, sessions, outcome, written, invocations>>
    /\ UNCHANGED earlier

\* _cleanup(handle); }  -- the session and the output buffer it owns go away
Cleanup ==
    /\ pc = "cleanup"
    /\ trace' = Append(trace, Call("cleanup", handle))
    /\ LET s == sessions[handle]
       IN heap' = IF s.written THEN [heap EXCEPT ![s.outPtr] = FreeBlock] ELSE heap
    /\ sessions' = [sessions EXCEPT ![handle] = ClosedSession]
    /\ pc' = Succ(op, pc)
    /\ UNCHANGED <<op, args, handle, ptr, rc, locals, outcome, written, invocations>>
    /\ UNCHANGED earlier

\* the return value or the exception reaches the caller; nothing of the
\* invocation is kept but the state of the WASM module
Deliver ==
    /\ pc = "done"
    /\ op' = "none"
    /\ args' = NoArgs
    /\ pc' = "idle"
    /\ handle' = 0
    /\ ptr' = 0
    /\ rc' = 0
    /\ locals' = NoLocals
    /\ trace' = <<>>
    /\ outcome' = NoOutcome
    /\ written' = <<>>
    /\ UNCHANGED <<sessions, heap, invocations>>
    /\ UNCHANGED earlier

Next ==
    \/ Start
    \/ CallInit
    \/ AllocBytes
    \/ ReadMemory
    \/ RcCheck
    \/ Query
    \/ GetInfoKey
    \/ InitWriteMemory
    \/ Setter
    \/ Write
    \/ GetBufferLength
    \/ GetBuffer
    \/ CopyOut
    \/ FailReturn
    \/ CheckPdf
    \/ Return
    \/ Free
    \/ Cleanup
    \/ Deliver

Spec == Init /\ [][Next]_vars

(* --------------------- getInfo repeated on one array ------------------- *)
\* the caller's array as if allocBytes had emptied it
InputAfterDetached(a) == <<>>

\* the caller's array after the invocation: allocBytes reads it
\* (HEAPU8.set copies from it) and nothing writes it
InputAfter(a) == a.pdfBytes

\* the caller makes getInfo on an array of MaxLen bytes with a
\* password, then any operations on that array or on one of 4 GiB, among
\* them getInfo on the same array with the same password; the last
\* invocation of a behaviour is a getInfo
RepeatStart ==
    /\ pc = "idle"
    /\ invocations < MaxRepeat
    /\ \/ /\ ~earlier.called
          /\ op' = "getInfo"
          /\ \E b \in {x \in Inputs : Len(x) = MaxLen}, p \in Passwords :
               args' = [NoArgs EXCEPT !.pdfBytes = b, !.password = p]
       \/ /\ earlier.called
          /\ op' = "getInfo"
          /\ args' = [NoArgs EXCEPT !.pdfBytes = earlier.kept,
                                    !.password = earlier.password]
       \/ /\ earlier.called
          /\ invocations + 1 < MaxRepeat
          /\ \E o \in Ops \ {"getInfo"},
                b \in {x \in InputArrays : x.hi # 0 \/ x.bytes = earlier.kept} :
               \E k \in (IF o = "getInfoKey" THEN Keys ELSE {""}) :
                 /\ op' = o
                 /\ args' = [NoArgs EXCEPT !.pdfBytes = b.bytes, !.hi = b.hi, !.key = k]
    /\ pc' = "init"
    /\ handle' = 0
    /\ ptr' = 0
    /\ rc' = 0
    /\ locals' = NoLocals
    /\ trace' = <<>>
    /\ outcome' = NoOutcome
    /\ written' = <<>>
    /\ invocations' = invocations + 1
    /\ UNCHANGED <<sessions, heap, earlier>>

\* allocBytes while the heap has room: it throws only for the array of
\* 4 GiB
RepeatAllocBytes ==
    /\ AllocBytes
    /\ args.hi = 0 => pc' = Succ(op, pc)

\* the return value or the exception reaches the caller, who keeps what
\* the first getInfo delivered
RepeatDeliver ==
    /\ pc = "done"
    /\ earlier' = IF earlier.called
                  THEN earlier
                  ELSE [called |-> TRUE, pdfBytes |-> args.pdfBytes,
                        password |-> args.password, kept |-> InputAfter(args),
                        trace |-> trace, outcome |-> outcome]
    /\ op' = "none"
    /\ args' = NoArgs
    /\ pc' = "idle"
    /\ handle' = 0
    /\ ptr' = 0
    /\ rc' = 0
    /\ locals' = NoLocals
    /\ trace' = <<>>
    /\ outcome' = NoOutcome
    /\ written' = <<>>
    /\ UNCHANGED <<sessions, heap, invocations>>

RepeatNext ==
    \/ RepeatStart
    \/ CallInit
    \/ RepeatAllocBytes
    \/ ReadMemory
    \/ RcCheck
    \/ Query
    \/ GetInfoKey
    \/ InitWriteMemory
    \/ Setter
    \/ Write
    \/ GetBufferLength
    \/ GetBuffer
    \/ CopyOut
    \/ FailReturn
    \/ CheckPdf
    \/ Return
    \/ Free
    \/ Cleanup
    \/ RepeatDeliver

SpecRepeat == Init /\ [][RepeatNext]_vars

(* ----------------------- reading the trace ----------------------------- *)
Idx(fn) == {i \in DOMAIN trace : trace[i].fn = fn}
Count(fn) == Cardinality(Idx(fn))
\* the invocation has left its try block
Leaving == pc \in {"free", "cleanup", "done"}
\* the boundary calls that only read the error state or release resources
ErrorReads == {"hasError", "getErrorText"}
Releases == {"free", "cleanup"}
RaisingOps == {"getInfo", "getInfoKey", "processPdf"}

(* ------------------------------- C1 ------------------------------------ *)
\* C1: on every exit path of an invocation there has been exactly one
\* _init and exactly one _cleanup, exactly one _malloc and one _free of the
\* input buffer, and the session is closed.
C1_OneOpenOneCloseOnEveryPath ==
    pc = "done" =>
        /\ Count("init") = 1
        /\ Count("cleanup") = 1
        /\ Cardinality({i \in Idx("malloc") : ~trace[i].trap}) = 1
        /\ Count("free") = 1
        /\ sessions[handle].state = "closed"

(* ------------------------------- C2 ------------------------------------ *)
\* C2 as claimed: in getInfo, getInfoKey and processPdf, after a
\* _readMemory that returned a non-zero status nothing but error-state
\* reads and the releases is called, the operation throws, and it returns
\* no value.
C2_NonZeroLoadAlwaysRaises ==
    op \in RaisingOps =>
        \A i \in Idx("readMemory") :
            (~trace[i].trap /\ trace[i].res # 0) =>
                /\ \A j \in DOMAIN trace : j > i => trace[j].fn \in ErrorReads \cup Releases
                /\ outcome.kind # "return"
                /\ pc = "done" => outcome.kind = "throw"

\* C2 amended: in getInfo, getInfoKey and processPdf, after a _readMemory
\* that returned a non-zero status and left an error in the session (so
\* that _hasError answers true), the operation throws and stops: the next
\* call is _hasError, no attribute read, no _initWriteMemory, no setter and
\* no _write follows, and no value is returned.
C2_LoadErrorRaisesAndStops ==
    op \in RaisingOps =>
        \A i \in Idx("readMemory") :
            (/\ ~trace[i].trap
             /\ trace[i].res # 0
             /\ trace[i].err) =>
                /\ \A j \in DOMAIN trace : j > i => trace[j].fn \in ErrorReads \cup Releases
                /\ outcome.kind # "return"
                /\ pc # "readCheck" =>
                     /\ outcome.kind = "throw"
                     /\ i < Len(trace)
                     /\ trace[i + 1].fn = "hasError"

C2_Witness ==
    /\ pc = "done"
    /\ op = "getInfo"
    /\ outcome.kind = "throw"
    /\ \E i \in Idx("readMemory") : trace[i].res = 2 /\ trace[i + 1].fn = "hasError"
    /\ Count("getPdfVersion") = 0

(* ------------------------------- C3 ------------------------------------ *)
\* C3: whatever leaves an operation as a failure is an Error that carries
\* a message, never the raw value a boundary call threw.
C3_NoRawValueLeaves ==
    (pc = "done" /\ outcome.kind = "throw") =>
        outcome.isError /\ outcome.message # ""

(* ------------------------------- C4 ------------------------------------ *)
\* C4: after a boundary call on the session threw a raw value, the error
\* state of the session is read (_hasError or _getErrorText) before
\* _cleanup is called on it.
C4_ErrorStateReadBeforeClose ==
    \A i \in DOMAIN trace :
        (trace[i].trap /\ trace[i].h = handle /\ handle # 0) =>
            \A k \in Idx("cleanup") :
                \E j \in DOMAIN trace :
                    i < j /\ j < k /\ trace[j].fn \in ErrorReads

(* ------------------------------- C5 ------------------------------------ *)
\* C5: in checkPdf, after a _readMemory that returned a non-zero status
\* the operation does not throw and does not call _checkPdf; it returns
\* ok = false with a non-empty error, which is the text _getErrorText
\* answered or, when that text is empty, "Failed to read PDF"; and the
\* session is closed when the operation is over.
C5_CheckPdfLoadFailureIsData ==
    op = "checkPdf" =>
        \A i \in Idx("readMemory") :
            (~trace[i].trap /\ trace[i].res # 0) =>
                /\ Count("checkPdf") = 0
                /\ outcome.kind # "throw"
                /\ Leaving =>
                     /\ outcome.kind = "return"
                     /\ ~outcome.ok
                     /\ outcome.error # ""
                     /\ \E j \in Idx("getErrorText") :
                          /\ j = i + 1
                          /\ outcome.error = IF trace[j].txt = ""
                                             THEN "Failed to read PDF"
                                             ELSE trace[j].txt
                /\ pc = "done" =>
                     Count("cleanup") = 1 /\ sessions[handle].state = "closed"

C5_Witness ==
    /\ pc = "done"
    /\ op = "checkPdf"
    /\ \E i \in Idx("readMemory") : trace[i].res = 1
    /\ outcome.kind = "return"
    /\ outcome.error = "Failed to read PDF"

(* ------------------------------- C6 ------------------------------------ *)
\* C6: in checkPdf, after a _readMemory that returned zero, _checkPdf is
\* called exactly once; when it returns a status the operation does not
\* throw, returns ok = true exactly if that status is zero, and returns a
\* non-empty error with ok = false otherwise.
C6_CheckPdfStructuralCheck ==
    (op = "checkPdf" /\ \E i \in Idx("readMemory") : ~trace[i].trap /\ trace[i].res = 0) =>
        /\ Count("checkPdf") <= 1
        /\ Leaving => Count("checkPdf") = 1
        /\ \A k \in Idx("checkPdf") :
             ~trace[k].trap =>
                /\ outcome.kind # "throw"
                /\ Leaving =>
                     /\ outcome.kind = "return"
                     /\ outcome.ok <=> (trace[k].res = 0)
                     /\ trace[k].res # 0 => outcome.error \notin {"", "null"}

C6_Witness ==
    /\ pc = "done"
    /\ op = "checkPdf"
    /\ \E i \in Idx("readMemory") : trace[i].res = 0
    /\ \E k \in Idx("checkPdf") : trace[k].res = 2
    /\ outcome.kind = "return"
    /\ outcome.error = "check error"

(* ------------------------------- C7 ------------------------------------ *)
\* C7 as claimed: in processPdf, after a _write that returned a non-zero
\* status the operation throws and stops: _getBufferLength and _getBuffer
\* are not called, the heap is not read, and no bytes are returned.
C7_NonZeroWriteAlwaysRaises ==
    op = "processPdf" =>
        \A i \in Idx("write") :
            (~trace[i].trap /\ trace[i].res # 0) =>
                /\ \A j \in DOMAIN trace : j > i => trace[j].fn \in ErrorReads \cup Releases
                /\ outcome.kind # "return"
                /\ pc = "done" => outcome.kind = "throw"

\* C7 amended: in processPdf, after a _write that returned a non-zero
\* status and left an error in the session (so that _hasError answers
\* true), the operation throws and stops: _getBufferLength and _getBuffer
\* are not called, the heap is not read, and no bytes are returned.
C7_WriteErrorRaisesAndStops ==
    op = "processPdf" =>
        \A i \in Idx("write") :
            (/\ ~trace[i].trap
             /\ trace[i].res # 0
             /\ trace[i].err) =>
                /\ \A j \in DOMAIN trace : j > i => trace[j].fn \in ErrorReads \cup Releases
                /\ Count("getBufferLength") = 0
                /\ Count("getBuffer") = 0
                /\ Count("heapRead") = 0
                /\ outcome.kind # "return"
                /\ outcome.bytes = NoOutcome.bytes
                /\ pc # "writeCheck" => outcome.kind = "throw"

C7_Witness ==
    /\ pc = "done"
    /\ op = "processPdf"
    /\ outcome.kind = "throw"
    /\ \E i \in Idx("write") : trace[i].res = 2 /\ trace[i + 1].fn = "hasError"

(* ------------------------------- C8 ------------------------------------ *)
\* C8: when processPdf returns bytes, the heap was read for them before
\* _cleanup was called, and what the caller reads in them is what the
\* writer produced, whatever has become of the heap: also after the
\* session is closed, and also if every block of the heap is released.
C8_OutputCopiedBeforeClose ==
    (op = "processPdf" /\ outcome.kind = "return") =>
        /\ Count("heapRead") = 1
        /\ \A k \in Idx("cleanup") : \A j \in Idx("heapRead") : j < k
        /\ \A w \in Idx("write") : \A j \in Idx("heapRead") : w < j
        /\ Observed(heap, outcome.bytes) = written
        /\ Observed([a \in HeapSlots |-> FreeBlock], outcome.bytes) = written

C8_Witness ==
    /\ pc = "done"
    /\ op = "processPdf"
    /\ outcome.kind = "return"
    /\ written # <<>>
    /\ outcome.bytes.bytes = written
    /\ sessions[handle].state = "closed"
    /\ \A a \in HeapSlots : ~heap[a].live

(* ------------------------------- C9 ------------------------------------ *)
\* C9: a setter is called only by processPdf, on the session of the
\* invocation, after a _readMemory and an _initWriteMemory on that session
\* that returned without an error, and before any _write: no _write
\* precedes a setter call.
C9_SettersBetweenPrepareAndWrite ==
    \A i \in DOMAIN trace :
        trace[i].fn \in SetterFns =>
            /\ op = "processPdf"
            /\ trace[i].h = handle
            /\ \E j \in Idx("readMemory") :
                 /\ j < i
                 /\ trace[j].h = handle
                 /\ ~trace[j].trap
                 /\ trace[j].res \in {0, 1}
                 /\ \E k \in Idx("initWriteMemory") :
                      /\ j < k
                      /\ k < i
                      /\ trace[k].h = handle
                      /\ ~trace[k].trap
                      /\ trace[k].res \in {0, 1}
            /\ \A w \in Idx("write") : i < w

C9_Witness ==
    /\ pc = "done"
    /\ op = "processPdf"
    /\ \A f \in Flags : Count(SetterFn(f)) = 1
    /\ Count("write") = 1

(* ------------------------------- C10 ----------------------------------- *)
\* C10: for each of the five options, whatever the other four are: the
\* setter of an absent option is never called; the setter of a present
\* option is called at most once, with 1 for true and 0 for false; and by
\* the time _write is called it has been called exactly once.
C10_SetterPerPresentOption ==
    \A f \in Flags :
        LET v == args.options[f]
            calls == Idx(SetterFn(f))
        IN /\ v = "undefined" => calls = {}
           /\ Cardinality(calls) <= 1
           /\ \A i \in calls :
                /\ v = "true" => trace[i].val = 1
                /\ v = "false" => trace[i].val = 0
           /\ (v # "undefined" /\ Count("write") > 0) => Cardinality(calls) = 1

C10_Witness ==
    /\ pc = "done"
    /\ op = "processPdf"
    /\ Count("write") = 1
    /\ args.options["linearize"] = "true"
    /\ args.options["compress"] = "false"
    /\ args.options["qdfMode"] = "undefined"
    /\ \E i \in Idx("setLinearize") : trace[i].val = 1
    /\ \E i \in Idx("setCompress") : trace[i].val = 0
    /\ Count("setQdf") = 0

(* ------------------------------- C11 ----------------------------------- *)
\* C11: in getInfoKey, once _getInfoKey has returned, the operation does
\* not throw: it returns null when the library answered NULL (key unset)
\* or the empty string, and the string the library answered otherwise.
C11_InfoKeyAbsentIsNull ==
    op = "getInfoKey" =>
        \A i \in Idx("getInfoKey") :
            ~trace[i].trap =>
                /\ outcome.kind # "throw"
                /\ Leaving =>
                     /\ outcome.kind = "return"
                     /\ trace[i].txt \in {"NULL", ""} => outcome.str = "null"
                     /\ trace[i].txt \notin {"NULL", ""} => outcome.str = trace[i].txt

C11_Witness ==
    /\ pc = "done"
    /\ op = "getInfoKey"
    /\ \E i \in Idx("getInfoKey") : trace[i].txt = ""
    /\ outcome.kind = "return"
    /\ outcome.str = "null"

(* ------------------------------- C12 ----------------------------------- *)
\* C12: when an operation throws after a non-zero status, the message of
\* the Error is "qpdf error: " followed by the text _getErrorText answered
\* for that session, which is the text the failing call left there.
C12_MessageCarriesDiagnostic ==
    \A i \in Idx("getErrorText") :
        (outcome.kind = "throw" /\ i > 1 /\ trace[i - 1].fn = "hasError") =>
            /\ outcome.isError
            /\ trace[i].h = handle
            /\ outcome.message = "qpdf error: " \o trace[i].txt
            /\ i > 2
            /\ trace[i - 2].err
            /\ trace[i].txt =
                 (CASE trace[i - 2].fn = "readMemory" -> "read error"
                    [] trace[i - 2].fn = "initWriteMemory" -> "init write error"
                    [] trace[i - 2].fn = "write" -> "write error"
                    [] OTHER -> "")

C12_Witness ==
    /\ pc = "done"
    /\ op = "processPdf"
    /\ outcome.kind = "throw"
    /\ outcome.message = "qpdf error: write error"
    /\ \E i \in Idx("getErrorText") : trace[i].txt = "write error"

(* ------------------------------- C13 ----------------------------------- *)
\* the calls that return a status
Fallible == {"readMemory", "initWriteMemory", "write", "checkPdf"}
\* the calls on the session of call i that come after it
LaterOnSession(i) == {j \in DOMAIN trace : j > i /\ trace[j].h = trace[i].h}
\* the first of them
NextOnSession(i) == CHOOSE j \in LaterOnSession(i) : \A k \in LaterOnSession(i) : j <= k

\* C13 as claimed: after every call that returns a status, the next call
\* on that session is _hasError.
C13_HasErrorAfterEveryFallibleCall ==
    \A i \in DOMAIN trace :
        (trace[i].fn \in Fallible /\ ~trace[i].trap /\ LaterOnSession(i) # {}) =>
            trace[NextOnSession(i)].fn = "hasError"

\* C13 amended: after every call that returns a non-zero status, the next
\* call on that session reads its error state, before any other call on
\* it: _hasError in getInfo, getInfoKey and processPdf, _getErrorText in
\* checkPdf.  After a zero status the error state is not read.
C13_ErrorStateReadAfterNonZeroStatus ==
    \A i \in DOMAIN trace :
        (trace[i].fn \in Fallible /\ ~trace[i].trap /\ LaterOnSession(i) # {}) =>
            LET nxt == trace[NextOnSession(i)].fn
            IN /\ (trace[i].res # 0 /\ op # "checkPdf") => nxt = "hasError"
               /\ (trace[i].res # 0 /\ op = "checkPdf") => nxt = "getErrorText"
               /\ trace[i].res = 0 => nxt \notin ErrorReads

C13_Witness ==
    /\ pc = "done"
    /\ op = "processPdf"
    /\ \E i \in Idx("readMemory") : trace[i].res = 1 /\ trace[i + 1].fn = "hasError"
    /\ \E i \in Idx("initWriteMemory") : trace[i].res = 0 /\ trace[i + 1].fn \in SetterFns
    /\ \E i \in Idx("write") : trace[i].res = 2 /\ trace[i + 1].fn = "hasError"

(* ------------------------------- C14 ----------------------------------- *)
\* C14: a call that returns a non-zero status without leaving an error in
\* the session (warnings only) does not end the operation and is not
\* reported: unless a later call fails, the operation returns its value,
\* and checkPdf returns ok = true; and the warning queue is never read.
C14_WarningsAreNotFailures ==
    /\ \A i \in DOMAIN trace : trace[i].fn \notin {"moreWarnings", "nextWarningText"}
    /\ \A i \in DOMAIN trace :
         (/\ trace[i].fn \in Fallible
          /\ ~trace[i].trap
          /\ trace[i].res # 0
          /\ ~trace[i].err
          /\ \A j \in DOMAIN trace : j > i => (~trace[j].trap /\ ~trace[j].err)
          /\ pc = "done") =>
              /\ outcome.kind = "return"
              /\ op = "checkPdf" => outcome.ok

(* ------------------------------- C15 ----------------------------------- *)
\* C15: every _readMemory call binds the parameters of the export as
\* (handle, ptr, size_lo, size_hi, password), with size_lo the length of
\* the input, size_hi zero, and the password in the password position,
\* with or without a password.
C15_ReadMemoryArgumentPositions ==
    \A i \in Idx("readMemory") :
        LET c == qpdf_wasm_read_memory_params(trace[i].argv)
        IN /\ c.qpdf = handle
           /\ c.buffer = ptr
           /\ c.size_lo = Len(args.pdfBytes)
           /\ c.size_hi = 0
           /\ c.password = StringToC(PasswordOrNull(args.password))

(* ------------------------------- C19 ----------------------------------- *)
\* C19: for an input whose length has non-zero high 32 bits, no call is
\* given the low 32 bits of the length as a size (neither _malloc nor
\* _readMemory), and the operation ends by throwing an Error that says the
\* input is not supported.
C19_HugeInputRejected ==
    args.hi # 0 =>
        /\ Count("malloc") = 0
        /\ Count("readMemory") = 0
        /\ pc = "done" =>
             /\ outcome.kind = "throw"
             /\ outcome.isError
             /\ outcome.message = "unsupported input"

WritingFns == {"initWriteMemory", "write", "setInfoKey"} \cup SetterFns

C18_ReadOnlyOperations ==
    /\ op \in {"getInfo", "getInfoKey", "checkPdf"} =>
         \A i \in DOMAIN trace : trace[i].fn \notin WritingFns
    /\ (op = "processPdf" /\ outcome.kind = "return") =>
         /\ Count("initWriteMemory") = 1
         /\ Count("write") = 1

C18_Witness ==
    /\ pc = "done"
    /\ op = "getInfoKey"
    /\ outcome.kind = "return"
    /\ outcome.str = "Alice"
    /\ Count("getInfoKey") = 1

(* ------------------------------- C20 ----------------------------------- *)
\* C20: every boundary call made on a session handle other than the _init
\* that opens it is made on the handle of the running invocation while
\* that session is open; so nothing is called on a handle after its
\* _cleanup, and nothing on a handle another invocation opened.
NewCalls == {i \in DOMAIN trace' : i > Len(trace)}

Question(e) ==
    LET c == qpdf_wasm_read_memory_params(e.argv)
    IN [fn |-> e.fn, own |-> e.h # 0, len |-> e.len, str |-> e.str,
        val |-> e.val, size_lo |-> c.size_lo, size_hi |-> c.size_hi,
        password |-> c.password, seen |-> e.seen]

\* what comes back from a boundary call; the value of a handle or of a
\* pointer is left out
Answer(e) ==
    [res |-> IF e.fn \in {"init", "malloc", "getBuffer"} THEN 0 ELSE e.res,
     txt |-> e.txt, trap |-> e.trap, err |-> e.err]

\* the first n calls of the invocation got the answers the first n calls
\* of the earlier getInfo got
SameAnswers(n) ==
    /\ n <= Len(trace)
    /\ n <= Len(earlier.trace)
    /\ \A j \in 1..n : Answer(trace[j]) = Answer(earlier.trace[j])

Lifecycle == {"init", "malloc", "heapSet", "free", "cleanup"}

\* C21: the copy of the input in the heap is live and unchanged until
\* Module._free(ptr) is called; every load, query, check, write, error
\* read and output copy of the invocation comes before that _free; the
\* block released is the one allocBytes returned; and a _cleanup is
\* preceded by that _free, with nothing between them.
C21_InputLiveWhileSessionWorks ==
    /\ (ptr # 0 /\ Count("free") = 0) =>
          /\ heap[ptr].live
          /\ heap[ptr].bytes = args.pdfBytes
    /\ \A i \in Idx("readMemory") : trace[i].seen = args.pdfBytes
    /\ \A f \in Idx("free") :
          /\ trace[f].ptr = ptr
          /\ \A i \in DOMAIN trace : trace[i].fn \notin Lifecycle => i < f
          /\ \A j \in DOMAIN trace : j > f => (j = f + 1 /\ trace[j].fn = "cleanup")
    /\ \A k \in Idx("cleanup") : k > 1 /\ trace[k - 1].fn = "free"

C21_Witness ==
    /\ pc = "done"
    /\ op = "processPdf"
    /\ outcome.kind = "return"
    /\ Count("heapRead") = 1
    /\ Len(trace) > 2
    /\ trace[Len(trace) - 1].fn = "free"
    /\ trace[Len(trace) - 1].ptr = ptr
    /\ trace[Len(trace) - 2].fn = "heapRead"
    /\ trace[Len(trace)].fn = "cleanup"
    /\ ~heap[ptr].live

====
